---- MODULE Spec2Model ----
(***************************************************************************)
(* Model of the recipe-book core: the canonical quantity types             *)
(* (src/src/measurements.rs) and the ingredient / recipe document parsers  *)
(* (src/src/recipe_util.rs).                                               *)
(*                                                                         *)
(* Text is a sequence of one-character strings (ASCII, one byte per        *)
(* character), indexed from 0 as in the source.  Canonical values are u64  *)
(* and are kept as little-endian sequences of decimal digits so that the   *)
(* whole 64-bit range, and the 53-bit rounding of f64, are exact.          *)
(***************************************************************************)
EXTENDS Integers, Sequences, FiniteSets, TLC

VARIABLES pc, inp, s, rec, out

vars == <<pc, inp, s, rec, out>>

(***************************************************************************)
(* Text                                                                    *)
(***************************************************************************)
None == [none |-> TRUE]

Some(x) == [some |-> x]

IsNone(o) == DOMAIN o = {"none"}

IsWs(c) == c \in {" ", "\t", "\n", "\r"}

UPPER == <<"A","B","C","D","E","F","G","H","I","J","K","L","M","N","O","P","Q","R","S","T","U","V","W","X","Y","Z">>

LOWER == <<"a","b","c","d","e","f","g","h","i","j","k","l","m","n","o","p","q","r","s","t","u","v","w","x","y","z">>

DIGITS == <<"0","1","2","3","4","5","6","7","8","9">>

IsDigit(c) == \E i \in 1..10 : DIGITS[i] = c

DigitVal(c) == (CHOOSE i \in 1..10 : DIGITS[i] = c) - 1

LowerChar(c) == IF \E i \in 1..26 : UPPER[i] = c THEN LOWER[CHOOSE i \in 1..26 : UPPER[i] = c] ELSE c

ToLowercase(t) == [i \in 1..Len(t) |-> LowerChar(t[i])]

\* t[a..b] and t[a..], with the source's 0-based byte offsets
Slice(t, a, b) == SubSeq(t, a + 1, b)

SliceFrom(t, a) == SubSeq(t, a + 1, Len(t))

\* a slice index is in bounds when a <= b <= len; otherwise the slice panics
InBounds(t, a, b) == 0 <= a /\ a <= b /\ b <= Len(t)

StartsWith(t, p) == Len(t) >= Len(p) /\ SubSeq(t, 1, Len(p)) = p

MatchAt(t, p, i) == i + Len(p) <= Len(t) /\ Slice(t, i, i + Len(p)) = p

\* str::find: offset of the first occurrence, -1 for None
Find(t, p) ==
    IF \E i \in 0..Len(t) : MatchAt(t, p, i)
    THEN CHOOSE i \in 0..Len(t) : MatchAt(t, p, i) /\ \A j \in 0..(i - 1) : ~MatchAt(t, p, j)
    ELSE -1

Contains(t, p) == Find(t, p) # -1

TrimStart(t) ==
    IF \E i \in 1..Len(t) : ~IsWs(t[i])
    THEN SubSeq(t, CHOOSE i \in 1..Len(t) : ~IsWs(t[i]) /\ \A j \in 1..(i - 1) : IsWs(t[j]), Len(t))
    ELSE <<>>

TrimEnd(t) ==
    IF \E i \in 1..Len(t) : ~IsWs(t[i])
    THEN SubSeq(t, 1, CHOOSE i \in 1..Len(t) : ~IsWs(t[i]) /\ \A j \in (i + 1)..Len(t) : IsWs(t[j]))
    ELSE <<>>

Trim(t) == TrimEnd(TrimStart(t))

\* str::trim_end_matches('s'): every trailing 's' is removed
TrimEndMatchesS(t) ==
    IF \E i \in 1..Len(t) : t[i] # "s"
    THEN SubSeq(t, 1, CHOOSE i \in 1..Len(t) : t[i] # "s" /\ \A j \in (i + 1)..Len(t) : t[j] = "s")
    ELSE <<>>

\* str::split_once(' ')
SplitOnce(t) ==
    LET i == Find(t, <<" ">>)
    IN  IF i = -1 THEN None ELSE Some(<<Slice(t, 0, i), SliceFrom(t, i + 1)>>)

RECURSIVE SplitBlank(_)
\* str::split("\n\n")
SplitBlank(t) ==
    LET i == Find(t, <<"\n", "\n">>)
    IN  IF i = -1 THEN <<t>> ELSE <<Slice(t, 0, i)>> \o SplitBlank(SliceFrom(t, i + 2))

RECURSIVE Concat(_)
Concat(ts) == IF ts = <<>> THEN <<>> ELSE Head(ts) \o Concat(Tail(ts))

(***************************************************************************)
(* Unsigned integers of any size: little-endian limbs in base 1000, no     *)
(* leading zero limb; <<>> is 0.  "Small" operands are at most 2000000, so  *)
(* that every intermediate product stays below 2^31.                       *)
(***************************************************************************)
RECURSIVE BNorm(_)
BNorm(x) == IF x # <<>> /\ x[Len(x)] = 0 THEN BNorm(SubSeq(x, 1, Len(x) - 1)) ELSE x

RECURSIVE N(_)
\* the limbs of a small natural number
N(n) == IF n = 0 THEN <<>> ELSE <<n % 1000>> \o N(n \div 1000)

RECURSIVE BMulC(_, _, _)
BMulC(x, k, c) ==
    IF x = <<>> THEN N(c)
    ELSE LET v == Head(x) * k + c IN <<v % 1000>> \o BMulC(Tail(x), k, v \div 1000)

\* x * k for a small k
BMul(x, k) == BNorm(BMulC(x, k, 0))

RECURSIVE BInc(_)
\* x + 1
BInc(x) ==
    IF x = <<>> THEN <<1>>
    ELSE IF Head(x) = 999 THEN <<0>> \o BInc(Tail(x)) ELSE <<Head(x) + 1>> \o Tail(x)

RECURSIVE BDivR(_, _, _, _)
BDivR(x, d, i, r) ==
    IF i = 0 THEN [q |-> <<>>, r |-> r]
    ELSE LET cur == r * 1000 + x[i]
             low == BDivR(x, d, i - 1, cur % d)
         IN  [q |-> Append(low.q, cur \div d), r |-> low.r]

\* quotient and remainder of x by a small d
BDiv(x, d) == LET a == BDivR(x, d, Len(x), 0) IN [q |-> BNorm(a.q), r |-> a.r]

RECURSIVE BLessFrom(_, _, _)
BLessFrom(x, y, i) ==
    IF i = 0 THEN FALSE
    ELSE IF x[i] # y[i] THEN x[i] < y[i] ELSE BLessFrom(x, y, i - 1)

BLess(x, y) ==
    IF Len(x) # Len(y) THEN Len(x) < Len(y) ELSE BLessFrom(x, y, Len(x))

BLeq(x, y) == ~BLess(y, x)

BIsOdd(x) == x # <<>> /\ x[1] % 2 = 1

RECURSIVE SmallNat(_)
\* the value of a short string of digits
SmallNat(t) == IF t = <<>> THEN 0 ELSE SmallNat(SubSeq(t, 1, Len(t) - 1)) * 10 + DigitVal(t[Len(t)])

RECURSIVE BOfDigitsR(_)
BOfDigitsR(t) ==
    IF Len(t) <= 3 THEN <<SmallNat(t)>>
    ELSE <<SmallNat(SubSeq(t, Len(t) - 2, Len(t)))>> \o BOfDigitsR(SubSeq(t, 1, Len(t) - 3))

\* the number written by a string of decimal digits
BOfDigits(t) == BNorm(BOfDigitsR(t))

Limb3(n) == <<DIGITS[(n \div 100) + 1], DIGITS[((n \div 10) % 10) + 1], DIGITS[(n % 10) + 1]>>

RECURSIVE SmallText(_)
SmallText(n) == IF n < 10 THEN <<DIGITS[n + 1]>> ELSE Append(SmallText(n \div 10), DIGITS[(n % 10) + 1])

RECURSIVE BToTextR(_)
BToTextR(x) == IF Len(x) = 1 THEN SmallText(x[1]) ELSE BToTextR(Tail(x)) \o Limb3(Head(x))

\* the decimal digits of a number ("0" for zero)
BToText(x) == IF x = <<>> THEN <<"0">> ELSE BToTextR(x)

RECURSIVE BShift10(_, _)
\* x * 10^n
BShift10(x, n) == IF n <= 6 THEN BMul(x, 10 ^ n) ELSE BShift10(BMul(x, 1000000), n - 6)

RECURSIVE BDiv10(_, _)
\* quotient of x by 10^n, and whether the remainder is not 0
BDiv10(x, n) ==
    IF n <= 6 THEN LET a == BDiv(x, 10 ^ n) IN [q |-> a.q, rest |-> a.r # 0]
    ELSE LET a == BDiv(x, 1000000)
             b == BDiv10(a.q, n - 6)
         IN  [q |-> b.q, rest |-> b.rest \/ a.r # 0]

TWO53 == BOfDigits(<<"9","0","0","7","1","9","9","2","5","4","7","4","0","9","9","2">>)

TWO61 == BOfDigits(<<"2","3","0","5","8","4","3","0","0","9","2","1","3","6","9","3","9","5","2">>)

U64_MAX == BOfDigits(<<"1","8","4","4","6","7","4","4","0","7","3","7","0","9","5","5","1","6","1","5">>)

RECURSIVE BMulPow2(_, _)
\* x * 2^n
BMulPow2(x, n) == IF n <= 20 THEN BMul(x, 2 ^ n) ELSE BMulPow2(BMul(x, 2 ^ 20), n - 20)

RECURSIVE BDivPow2(_, _)
\* x div 2^n
BDivPow2(x, n) == IF n <= 20 THEN BDiv(x, 2 ^ n).q ELSE BDivPow2(BDiv(x, 2 ^ 20).q, n - 20)

(***************************************************************************)
(* f64.  A finite value is (-1)^neg * m * 2^e with m < 2^53 (m = 2^53 only *)
(* right after a carry).  Exponents stay far inside the f64 range for the  *)
(* inputs of this model, so neither overflow to infinity nor subnormals    *)
(* arise from arithmetic.                                                  *)
(***************************************************************************)
F64Fin(neg, m, e) == [k |-> "fin", neg |-> neg, m |-> m, e |-> e]

F64Inf(neg) == [k |-> "inf", neg |-> neg, m |-> <<>>, e |-> 0]

F64NaN == [k |-> "nan", neg |-> FALSE, m |-> <<>>, e |-> 0]

RECURSIVE RoundShift(_, _, _, _, _)
\* round q * 2^e (plus a discarded part: round bit rb, sticky st) to 53 bits,
\* nearest, ties to even
RoundShift(neg, q, e, rb, st) ==
    IF BLess(q, TWO53)
    THEN F64Fin(neg, IF rb = 1 /\ (st \/ BIsOdd(q)) THEN BInc(q) ELSE q, e)
    ELSE IF BLeq(TWO61, q)
    THEN LET h == BDiv(q, 256)
         IN  RoundShift(neg, h.q, e + 8, h.r \div 128, st \/ rb = 1 \/ (h.r % 128) # 0)
    ELSE LET h == BDiv(q, 2) IN RoundShift(neg, h.q, e + 1, h.r, st \/ rb = 1)

\* a shift sh with x * 2^sh >= 2^53 * d, for x > 0 and d < 2^dbits
QuotShift(x, dbits) ==
    LET need == 53 + dbits - (99 * (Len(x) - 1)) \div 10
    IN  IF need < 0 THEN 0 ELSE need

\* the f64 nearest to x * 2^e / d, for x > 0 and a small d
RoundQuot(neg, x, d, e) ==
    LET sh == QuotShift(x, 10 * Len(N(d)))
        a == BDiv(BMulPow2(x, sh), d)
    IN  RoundShift(neg, a.q, e - sh, 0, a.r # 0)

\* the f64 nearest to x / 10^k, for x > 0
RoundDec(neg, x, k) ==
    LET sh == QuotShift(x, (10 * k + 2) \div 3)
        a == BDiv10(BMulPow2(x, sh), k)
    IN  RoundShift(neg, a.q, 0 - sh, 0, a.rest)

\* the f64 nearest to d * 10^p
F64OfDecimal(neg, d, p) ==
    IF d = <<>> THEN F64Fin(neg, <<>>, 0)
    ELSE IF p >= 0 THEN RoundShift(neg, BShift10(d, p), 0, 0, FALSE)
    ELSE RoundDec(neg, d, 0 - p)

\* `n as f64` for a u64
F64OfU64(x) == RoundShift(FALSE, x, 0, 0, FALSE)

\* a * (k as f64), k a small integer constant
F64MulInt(a, k) ==
    IF a.k # "fin" THEN a ELSE RoundShift(a.neg, BMul(a.m, k), a.e, 0, FALSE)

\* a / (k as f64), k a small integer constant
F64DivInt(a, k) ==
    IF a.k # "fin" \/ a.m = <<>> THEN a ELSE RoundQuot(a.neg, a.m, k, a.e)

\* m * 2^e, saturated at u64::MAX
ShiftUpSat(m, e) ==
    IF m = <<>> THEN <<>>
    ELSE IF e > 64 THEN U64_MAX
    ELSE LET v == BMulPow2(m, e) IN IF BLess(U64_MAX, v) THEN U64_MAX ELSE v

\* `x as u64`: truncation toward zero, saturating; NaN is 0
F64AsU64(a) ==
    IF a.k = "nan" THEN <<>>
    ELSE IF a.neg THEN <<>>
    ELSE IF a.k = "inf" THEN U64_MAX
    ELSE IF a.e >= 0 THEN ShiftUpSat(a.m, a.e)
    ELSE BDivPow2(a.m, 0 - a.e)

(***************************************************************************)
(* <f64 as FromStr>::from_str, as used by `amount.trim().parse::<f64>()`   *)
(***************************************************************************)
Ok(x) == [ok |-> x]

Err(kind, msg) == [err |-> kind, msg |-> msg]

IsOk(r) == "ok" \in DOMAIN r

IsErr(r) == "err" \in DOMAIN r

\* number of decimal digits of t from (1-based) position i on
DigitRun(t, i) ==
    IF \E j \in i..Len(t) : ~IsDigit(t[j])
    THEN (CHOOSE j \in i..Len(t) : ~IsDigit(t[j]) /\ \A l \in i..(j - 1) : IsDigit(t[l])) - i
    ELSE IF i > Len(t) THEN 0 ELSE Len(t) + 1 - i

InvalidFloat == Err("CustomString", "invalid float literal")

\* the exponent digits end the numeral
ParseExponentEnd(neg, u, n2, mant, eneg, efrom, n3) ==
    IF n3 = 0 \/ efrom + n3 # Len(u) + 1 THEN InvalidFloat
    ELSE Ok(F64OfDecimal(neg, mant, (IF eneg THEN 0 - SmallNat(SubSeq(u, efrom, efrom + n3 - 1))
                                     ELSE SmallNat(SubSeq(u, efrom, efrom + n3 - 1))) - n2))

\* the exponent after 'e' / 'E' at pos, with or without sign
ParseExponentSign(neg, u, n2, mant, pos, esign) ==
    ParseExponentEnd(neg, u, n2, mant, esign /\ u[pos + 1] = "-", pos + 1 + (IF esign THEN 1 ELSE 0),
                     DigitRun(u, pos + 1 + (IF esign THEN 1 ELSE 0)))

\* what follows the digits: the end, or an exponent
ParseExponent(neg, u, n2, mant, pos) ==
    IF pos <= Len(u) /\ u[pos] \in {"e", "E"}
    THEN ParseExponentSign(neg, u, n2, mant, pos, pos + 1 <= Len(u) /\ u[pos + 1] \in {"+", "-"})
    ELSE IF pos = Len(u) + 1 THEN Ok(F64OfDecimal(neg, mant, 0 - n2))
    ELSE InvalidFloat

\* n1 digits, an optional '.', n2 digits
ParseDigits(neg, u, n1, hasDot, n2) ==
    IF n1 + n2 = 0 THEN InvalidFloat
    ELSE ParseExponent(neg, u, n2,
                       BOfDigits(SubSeq(u, 1, n1) \o (IF hasDot THEN SubSeq(u, n1 + 2, n1 + 1 + n2) ELSE <<>>)),
                       n1 + (IF hasDot THEN 1 ELSE 0) + n2 + 1)

ParseFraction(neg, u, n1, hasDot) == ParseDigits(neg, u, n1, hasDot, IF hasDot THEN DigitRun(u, n1 + 2) ELSE 0)

ParseInteger(neg, u, n1) == ParseFraction(neg, u, n1, n1 + 1 <= Len(u) /\ u[n1 + 1] = ".")

\* the numeral u after its sign
ParseUnsigned(neg, u) ==
    IF ToLowercase(u) = <<"n","a","n">> THEN Ok(F64NaN)
    ELSE IF ToLowercase(u) \in {<<"i","n","f">>, <<"i","n","f","i","n","i","t","y">>} THEN Ok(F64Inf(neg))
    ELSE ParseInteger(neg, u, DigitRun(u, 1))

ParseF64(t) ==
    IF t = <<>> THEN Err("CustomString", "cannot parse float from empty string")
    ELSE ParseUnsigned(t[1] = "-", IF t[1] \in {"+", "-"} THEN Tail(t) ELSE t)

(***************************************************************************)
(* measurements.rs: Weight                                                 *)
(***************************************************************************)
POUND == 453592

OUNCE == 28349

OUNCE_LIMIT == OUNCE * 8

POUND_LIMIT == POUND * 4

\* Weight<T>(u64, PhantomData<T>)
Weight(v, tag) == [ty |-> "Weight", tag |-> tag, val |-> v]

\* the unit token: last.split_once(' ').map(|(u, _)| u).unwrap_or(last).trim().to_lowercase()
UnitToken(last) ==
    LET sp == SplitOnce(last)
    IN  ToLowercase(Trim(IF IsNone(sp) THEN last ELSE sp.some[1]))

\* a faulty normalisation that keeps the plural 's'
StripPluralNever(unit) == unit

\* unit.as_str().trim_end_matches('s')
StripPlural(unit) == TrimEndMatchesS(unit)

WeightUnit(unit, amount) ==
    CASE unit \in {<<"m","g">>, <<"m","i","l","l","i","g","r","a","m">>} -> Ok(amount)
      [] unit \in {<<"c","g">>, <<"c","e","n","t","i","g","r","a","m">>} -> Ok(F64MulInt(amount, 10))
      [] unit \in {<<"d","g">>, <<"d","e","c","i","g","r","a","m">>} -> Ok(F64MulInt(amount, 100))
      [] unit \in {<<"g">>, <<"g","r","a","m">>} -> Ok(F64MulInt(amount, 1000))
      [] unit \in {<<"k","g">>, <<"k","i","l","o","g","r","a","m">>} -> Ok(F64MulInt(amount, 1000000))
      [] unit \in {<<"o","z">>, <<"o","u","n","c","e">>} -> Ok(F64MulInt(amount, OUNCE))
      [] unit \in {<<"p","o","u","n","d">>, <<"l","b">>} -> Ok(F64MulInt(amount, POUND))
      [] OTHER -> Err("UnknownUnit", "")

\* Ok(Weight(weight as u64, PhantomData))
WeightOfProduct(weight) == IF IsErr(weight) THEN weight ELSE Ok(Weight(F64AsU64(weight.ok), "Metric"))

\* a faulty order: the unit is looked up before the amount's parse result
WeightOfAmountUnitFirst(unit, amount) ==
    IF IsErr(WeightUnit(unit, F64OfU64(N(1)))) THEN Err("UnknownUnit", "")
    ELSE IF IsErr(amount) THEN amount
    ELSE WeightOfProduct(WeightUnit(unit, amount.ok))

\* `?` on the parsed amount, then the match on the unit
WeightOfAmount(unit, amount) == IF IsErr(amount) THEN amount ELSE WeightOfProduct(WeightUnit(unit, amount.ok))

WeightFromStr(t) ==
    IF t = <<>> THEN Err("EmptyString", "")
    ELSE LET sp == SplitOnce(t)
         IN  IF IsNone(sp) THEN Err("InvalidFormat", "")
             ELSE WeightOfAmount(StripPlural(UnitToken(sp.some[2])), ParseF64(Trim(sp.some[1])))

(***************************************************************************)
(* measurements.rs: Volume                                                 *)
(***************************************************************************)
TSP == 4928

TBSP == 14786

VOL_OUNCE == 29573

RICE_CUP == 180000

CUP == 236588

QUART == 946353

LOWEST_LIMIT == TSP \div 15

E_TSP_LIMIT == (TSP * 12) \div 80

Q_TSP_LIMIT == (TSP * 12) \div 40

H_TSP_LIMIT == (TSP * 12) \div 20

TQ_TSP_LIMIT == (TSP * 120000) \div 133333

\* a faulty limit, the factor 12/10 inverted
TSP_LIMIT_INVERTED == (TSP * 10) \div 12

TSP_LIMIT == (TSP * 12) \div 10

H_TBSP_LIMIT == (TBSP * 12) \div 20

TBSP_LIMIT == (TBSP * 12) \div 10

VOL_OUNCE_LIMIT == VOL_OUNCE * 8

CUP_LIMIT == (QUART * 190) \div 200

QUART_LIMIT == QUART * 5

\* Volume<T>(u64, PhantomData<T>)
Volume(v, tag) == [ty |-> "Volume", tag |-> tag, val |-> v]

VolumeUnit(unit, amount, t) ==
    CASE unit \in {<<"m","l">>, <<"m","i","l","l","i","l","i","t","e","r">>, <<"m","i","l","l","i","l","i","t","r","e">>} -> Ok(F64MulInt(amount, 1000))
      [] unit \in {<<"c","l">>, <<"c","e","n","t","i","l","i","t","e","r">>, <<"c","e","n","t","i","l","i","t","r","e">>} -> Ok(F64MulInt(amount, 10000))
      [] unit \in {<<"d","l">>, <<"d","e","c","i","l","i","t","e","r">>, <<"d","e","c","i","l","i","t","r","e">>} -> Ok(F64MulInt(amount, 100000))
      [] unit \in {<<"l">>, <<"l","i","t","e","r">>, <<"l","i","t","r","e">>} -> Ok(F64MulInt(amount, 1000000))
      [] unit = <<"t","s","p">> -> Ok(F64MulInt(amount, TSP))
      [] unit = <<"t","b","s","p">> -> Ok(F64MulInt(amount, TBSP))
      [] unit = <<"f","l","o","z">> -> Ok(F64MulInt(amount, VOL_OUNCE))
      [] unit = <<"r","i","c","e">> /\ Contains(t, <<"c","u","p">>) -> Ok(F64MulInt(amount, RICE_CUP))
      [] unit = <<"c","u","p">> -> Ok(F64MulInt(amount, CUP))
      [] unit = <<"q","u","a","r","t">> -> Ok(F64MulInt(amount, QUART))
      [] OTHER -> Err("UnknownUnit", "")

\* Ok(Volume(volume as u64, PhantomData))
VolumeOfProduct(volume) == IF IsErr(volume) THEN volume ELSE Ok(Volume(F64AsU64(volume.ok), "Metric"))

\* `?` on the parsed amount, then the match on the unit
VolumeOfAmount(unit, amount, t) == IF IsErr(amount) THEN amount ELSE VolumeOfProduct(VolumeUnit(unit, amount.ok, t))

VolumeFromStr(t) ==
    IF t = <<>> THEN Err("EmptyString", "")
    ELSE LET sp == SplitOnce(t)
         IN  IF IsNone(sp) THEN Err("InvalidFormat", "")
             ELSE VolumeOfAmount(StripPlural(UnitToken(sp.some[2])), ParseF64(Trim(sp.some[1])), t)

(***************************************************************************)
(* measurements.rs: tag conversion                                         *)
(***************************************************************************)
\* a faulty as_imperial that rescales the stored value to ounces
WeightAsImperialOunces(w) == Weight(BDiv(w.val, OUNCE).q, "Imperial")

WeightAsImperial(w) == Weight(w.val, "Imperial")

WeightAsMetric(w) == Weight(w.val, "Metric")

VolumeAsImperial(v) == Volume(v.val, "Imperial")

VolumeAsMetric(v) == Volume(v.val, "Metric")

(***************************************************************************)
(* measurements.rs: Display.  A table is the list of the match arms in     *)
(* source order; an arm is the half-open range lo..hi, hi = OPEN for `lo..`*)
(***************************************************************************)
OPEN == -1

Arm(lo, hi) == [lo |-> lo, hi |-> hi]

ArmMatches(arm, v) == BLeq(N(arm.lo), v) /\ (arm.hi = OPEN \/ BLess(v, N(arm.hi)))

\* the arm a `match` takes: the first that matches, 0 when none does
FirstArm(arms, v) ==
    IF \E i \in 1..Len(arms) : ArmMatches(arms[i], v)
    THEN CHOOSE i \in 1..Len(arms) : ArmMatches(arms[i], v) /\ \A j \in 1..(i - 1) : ~ArmMatches(arms[j], v)
    ELSE 0

\* format!("{:.1}", a) for a finite a >= 0: one decimal, nearest, ties to even
Fmt1(a) ==
    LET y == BMul(a.m, 10)
        twice == IF a.e >= 0 THEN BMulPow2(y, a.e + 1) ELSE BDivPow2(y, (0 - a.e) - 1)
        exact == a.e >= 0 \/ BMulPow2(twice, (0 - a.e) - 1) = y
        h == BDiv(twice, 2)
        tenths == IF h.r = 1 /\ (~exact \/ BIsOdd(h.q)) THEN BInc(h.q) ELSE h.q
        d == BDiv(tenths, 10)
    IN  BToText(d.q) \o <<".", DIGITS[d.r + 1]>>

\* n as f64 / d as f64
Ratio(n, d) == F64DivInt(F64OfU64(n), d)

WEIGHT_METRIC ==
    << Arm(0, 1), Arm(0, 1000), Arm(1000, 1000000), Arm(1000000, 10000000), Arm(10000000, OPEN) >>

\* a faulty Display that takes a gram for 100 mg
DisplayWeightMetricArmHecto(i, n) ==
    CASE i = 1 -> <<"0"," ","g">>
      [] i = 2 -> BToText(n) \o <<" ","m","g">>
      [] i = 3 -> BToText(BDiv(n, 100).q) \o <<" ","g">>
      [] i = 4 -> Fmt1(Ratio(n, 1000000)) \o <<" ","k","g">>
      [] i = 5 -> BToText(BDiv(n, 1000000).q) \o <<" ","k","g">>
      [] OTHER -> <<"<","n","o"," ","a","r","m",">">>

DisplayWeightMetricArm(i, n) ==
    CASE i = 1 -> <<"0"," ","g">>
      [] i = 2 -> BToText(n) \o <<" ","m","g">>
      [] i = 3 -> BToText(BDiv(n, 1000).q) \o <<" ","g">>
      [] i = 4 -> Fmt1(Ratio(n, 1000000)) \o <<" ","k","g">>
      [] i = 5 -> BToText(BDiv(n, 1000000).q) \o <<" ","k","g">>
      [] OTHER -> <<"<","n","o"," ","a","r","m",">">>

DisplayWeightMetric(n) == DisplayWeightMetricArm(FirstArm(WEIGHT_METRIC, n), n)

WEIGHT_IMPERIAL ==
    << Arm(0, 250), Arm(250, 500), Arm(500, 1000), Arm(1000, 2000), Arm(2000, 4000),
       Arm(4000, 8000), Arm(8000, 12000), Arm(12000, OUNCE), Arm(OUNCE, OUNCE_LIMIT),
       Arm(OUNCE_LIMIT, POUND_LIMIT), Arm(POUND_LIMIT, OPEN) >>

DisplayWeightImperialArm(i, n) ==
    CASE i = 1 -> <<"0"," ","o","z">>
      [] i = 2 -> <<"1","/","8"," ","t","s","p">>
      [] i = 3 -> <<"1","/","4"," ","t","s","p">>
      [] i = 4 -> <<"1","/","2"," ","t","s","p">>
      [] i = 5 -> <<"1"," ","t","s","p">>
      [] i = 6 -> <<"1","/","2"," ","t","b","s","p">>
      [] i = 7 -> <<"1"," ","t","b","s","p">>
      [] i = 8 -> Fmt1(Ratio(n, OUNCE)) \o <<" ","o","z">>
      [] i = 9 -> Fmt1(Ratio(n, OUNCE)) \o <<" ","g">>
      [] i = 10 -> Fmt1(Ratio(n, POUND)) \o <<" ","g">>
      [] i = 11 -> BToText(BDiv(n, POUND).q) \o <<" ","g">>
      [] OTHER -> <<"<","n","o"," ","a","r","m",">">>

DisplayWeightImperial(n) == DisplayWeightImperialArm(FirstArm(WEIGHT_IMPERIAL, n), n)

VOLUME_METRIC ==
    << Arm(0, 500), Arm(500, 500000), Arm(500000, 5000000), Arm(5000000, OPEN) >>

DisplayVolumeMetricArm(i, n) ==
    CASE i = 1 -> <<"0"," ","m","l">>
      [] i = 2 -> BToText(BDiv(n, 1000).q) \o <<" ","m","l">>
      [] i = 3 -> Fmt1(Ratio(n, 1000000)) \o <<" ","l">>
      [] i = 4 -> BToText(BDiv(n, 1000000).q) \o <<" ","l">>
      [] OTHER -> <<"<","n","o"," ","a","r","m",">">>

DisplayVolumeMetric(n) == DisplayVolumeMetricArm(FirstArm(VOLUME_METRIC, n), n)

VOLUME_IMPERIAL ==
    << Arm(0, LOWEST_LIMIT), Arm(LOWEST_LIMIT, E_TSP_LIMIT), Arm(E_TSP_LIMIT, Q_TSP_LIMIT),
       Arm(Q_TSP_LIMIT, H_TSP_LIMIT), Arm(H_TSP_LIMIT, TQ_TSP_LIMIT), Arm(TQ_TSP_LIMIT, TSP_LIMIT),
       Arm(TSP_LIMIT, H_TBSP_LIMIT), Arm(H_TBSP_LIMIT, TBSP_LIMIT), Arm(TBSP_LIMIT, VOL_OUNCE_LIMIT),
       Arm(VOL_OUNCE_LIMIT, CUP_LIMIT), Arm(CUP_LIMIT, QUART_LIMIT), Arm(QUART_LIMIT, OPEN) >>

DisplayVolumeImperialArm(i, n) ==
    CASE i = 1 -> <<"0"," ","t","s","p">>
      [] i = 2 -> <<"1","/","8"," ","t","s","p">>
      [] i = 3 -> <<"1","/","4"," ","t","s","p">>
      [] i = 4 -> <<"1","/","2"," ","t","s","p">>
      [] i = 5 -> <<"3","/","4"," ","t","s","p">>
      [] i = 6 -> <<"1"," ","t","s","p">>
      [] i = 7 -> <<"1","/","2"," ","t","b","s","p">>
      [] i = 8 -> <<"1"," ","t","b","s","p">>
      [] i = 9 -> Fmt1(Ratio(n, VOL_OUNCE)) \o <<" ","f","l","o","z">>
      [] i = 10 -> Fmt1(Ratio(n, CUP)) \o <<" ","c","u","p","s">>
      [] i = 11 -> Fmt1(Ratio(n, QUART)) \o <<" ","q","u","a","r","t","s">>
      [] i = 12 -> BToText(BDiv(n, QUART).q) \o <<" ","q","u","a","r","t","s">>
      [] OTHER -> <<"<","n","o"," ","a","r","m",">">>

DisplayVolumeImperial(n) == DisplayVolumeImperialArm(FirstArm(VOLUME_IMPERIAL, n), n)

\* Display for Weight<T> / Volume<T> (and, through it, IngredientQuantity<T>)
Display(q) ==
    CASE q.ty = "Weight" /\ q.tag = "Metric" -> DisplayWeightMetric(q.val)
      [] q.ty = "Weight" /\ q.tag = "Imperial" -> DisplayWeightImperial(q.val)
      [] q.ty = "Volume" /\ q.tag = "Metric" -> DisplayVolumeMetric(q.val)
      [] q.ty = "Volume" /\ q.tag = "Imperial" -> DisplayVolumeImperial(q.val)

(***************************************************************************)
(* recipe_util.rs: IngredientQuantity, Ingredient                          *)
(***************************************************************************)
\* IngredientQuantity::as_imperial / as_metric: the variant is kept
QuantityAsImperial(q) == IF q.ty = "Weight" THEN WeightAsImperial(q) ELSE VolumeAsImperial(q)

QuantityAsMetric(q) == IF q.ty = "Weight" THEN WeightAsMetric(q) ELSE VolumeAsMetric(q)

\* Ingredient<T> { ingredient, quantity }
Ingredient(name, quantity, tag) == [ingredient |-> name, quantity |-> quantity, tag |-> tag]

IngredientAsImperial(i) ==
    Ingredient(i.ingredient, IF IsNone(i.quantity) THEN None ELSE Some(QuantityAsImperial(i.quantity.some)), "Imperial")

IngredientAsMetric(i) ==
    Ingredient(i.ingredient, IF IsNone(i.quantity) THEN None ELSE Some(QuantityAsMetric(i.quantity.some)), "Metric")

Panic(what) == [panic |-> what]

IsPanic(r) == "panic" \in DOMAIN r

\* byte offset of the second ' ' of t, or t.len()
SecondSpace(t) ==
    LET spaces == {i \in 1..Len(t) : t[i] = " "}
    IN  IF Cardinality(spaces) >= 2
        THEN (CHOOSE i \in spaces : Cardinality({j \in spaces : j < i}) = 1) - 1
        ELSE Len(t)

\* recipe_util.rs 131-137, 141-147: the name is the text from the second space on
IngredientWithQuantity(t, amount_i, q) ==
    IF ~InBounds(t, amount_i, Len(t)) THEN Panic("s[amount_i..]")
    ELSE Ok(Ingredient(TrimStart(SliceFrom(t, amount_i)), Some(q), "Metric"))

\* a faulty last case that trims the name of a line without quantity
IngredientOfQuantityTrimmed(t, amount_i, m, v) ==
    IF IsOk(m) THEN IngredientWithQuantity(t, amount_i, m.ok)
    ELSE IF IsOk(v) THEN IngredientWithQuantity(t, amount_i, v.ok)
    ELSE Ok(Ingredient(Trim(t), None, "Metric"))

\* recipe_util.rs 130-154: the Weight, else the Volume, else the whole line
IngredientOfQuantity(t, amount_i, m, v) ==
    IF IsOk(m) THEN IngredientWithQuantity(t, amount_i, m.ok)
    ELSE IF IsOk(v) THEN IngredientWithQuantity(t, amount_i, v.ok)
    ELSE Ok(Ingredient(t, None, "Metric"))

\* recipe_util.rs 130, 140: both parses of the amount text
IngredientOfAmount(t, amount_i, amount) ==
    IngredientOfQuantity(t, amount_i, WeightFromStr(amount), VolumeFromStr(amount))

\* recipe_util.rs 128: let amount = &s[..amount_i].trim_end()
IngredientAt(t, amount_i) ==
    IF ~InBounds(t, 0, amount_i) THEN Panic("s[..amount_i]")
    ELSE IngredientOfAmount(t, amount_i, TrimEnd(Slice(t, 0, amount_i)))

IngredientFromStr(t) ==
    IF t = <<>> THEN Err("ExpectedIngredient", "") ELSE IngredientAt(t, SecondSpace(t))

(***************************************************************************)
(* recipe_util.rs: Recipe                                                  *)
(***************************************************************************)
\* Recipe<T> { title, image, introduction, ingredients, steps }
Recipe(title, image, introduction, ingredients, steps, tag) ==
    [title |-> title, image |-> image, introduction |-> introduction,
     ingredients |-> ingredients, steps |-> steps, tag |-> tag]

RecipeAsImperial(r) ==
    Recipe(r.title, r.image, r.introduction,
           [i \in 1..Len(r.ingredients) |-> IngredientAsImperial(r.ingredients[i])], r.steps, "Imperial")

RecipeAsMetric(r) ==
    Recipe(r.title, r.image, r.introduction,
           [i \in 1..Len(r.ingredients) |-> IngredientAsMetric(r.ingredients[i])], r.steps, "Metric")

NL == <<"\n">>

BLANK == <<"\n", "\n">>

MARK_INGREDIENTS == <<"-","-","-","i","n","g","r","e","d","i","e","n","t","s">>

MARK_STEPS == <<"-","-","-","s","t","e","p","s">>

MARK_IMAGE == <<"i","m","a","g","e",":">>

Step(body) == [body |-> body]

Image(href) == [href |-> href]

Pending == [pending |-> TRUE]

\* the locals of Recipe::from_str before the first stage has run
NoFields == [title |-> <<>>, image |-> None, introduction |-> None, ingredients |-> <<>>]

\* `return Err(..)` / a failed `?` / a panic: the call ends with this result
Return(result) == pc' = "done" /\ out' = result /\ UNCHANGED <<inp, s, rec>>

\* the call goes on with the remaining text s2 and the locals r2
Goto(stage, s2, r2) == pc' = stage /\ s' = s2 /\ rec' = r2 /\ UNCHANGED <<inp, out>>

\* recipe_util.rs 242-247
Title ==
    /\ pc = "title"
    /\ LET title_end == Find(s, BLANK)
       IN  IF title_end = -1 THEN Return(Err("ExpectedTitle", ""))
           ELSE IF ~InBounds(s, 0, title_end) \/ ~InBounds(s, title_end, Len(s)) THEN Return(Panic("s[..title_end]"))
           ELSE Goto("image", TrimStart(SliceFrom(s, title_end)), [rec EXCEPT !.title = Slice(s, 0, title_end)])

\* recipe_util.rs 249-259
ImageStage ==
    /\ pc = "image"
    /\ IF StartsWith(s, MARK_IMAGE)
       THEN LET image_href_end == Find(s, BLANK)
            IN  IF image_href_end = -1 THEN Return(Err("ExpectedImageHref", ""))
                ELSE IF ~InBounds(s, 6, image_href_end) \/ ~InBounds(s, image_href_end, Len(s)) THEN Return(Panic("s[6..image_href_end]"))
                ELSE Goto("introduction", TrimStart(SliceFrom(s, image_href_end)),
                          [rec EXCEPT !.image = Some(Image(TrimStart(Slice(s, 6, image_href_end))))])
       ELSE Goto("introduction", s, rec)

\* recipe_util.rs 263-271
Introduction ==
    /\ pc = "introduction"
    /\ IF ~StartsWith(s, MARK_INGREDIENTS)
       THEN LET introduction_end == Find(s, BLANK)
            IN  IF introduction_end = -1 THEN Return(Err("ExpectedImageHref", ""))
                ELSE IF ~InBounds(s, 0, introduction_end) \/ ~InBounds(s, introduction_end, Len(s)) THEN Return(Panic("s[..introduction_end]"))
                ELSE Goto("ingredients_start", TrimStart(SliceFrom(s, introduction_end)),
                          [rec EXCEPT !.introduction = Some(TrimStart(Slice(s, 0, introduction_end)))])
       ELSE Goto("ingredients_start", s, rec)

\* a faulty offset, one past the end of the marker
AfterMarkerAndNewline == 14 + 1

\* the offset at which the text after the ingredients marker starts
AfterMarker == 14

\* recipe_util.rs 275-280
IngredientsStart ==
    /\ pc = "ingredients_start"
    /\ IF ~StartsWith(s, MARK_INGREDIENTS) THEN Return(Err("ExpectedIngredientsStart", ""))
       ELSE IF ~InBounds(s, AfterMarker, Len(s)) THEN Return(Panic("s[14..]"))
       ELSE Goto("ingredients", TrimStart(SliceFrom(s, AfterMarker)), rec)

\* where the loop body continues: just after the line's newline
NextLine(ingredient_end) == ingredient_end + 1

\* recipe_util.rs 283-285: `?` on the parsed line, push, the rest of the text
PushIngredient(ingredient_end, ingredient) ==
    IF ~IsOk(ingredient) THEN Return(ingredient)
    ELSE IF ~InBounds(s, NextLine(ingredient_end), Len(s)) THEN Return(Panic("s[(ingredient_end + 1)..]"))
    ELSE Goto("ingredients", SliceFrom(s, NextLine(ingredient_end)),
              [rec EXCEPT !.ingredients = Append(@, ingredient.ok)])

\* recipe_util.rs 282-283: the line up to its newline
IngredientLineAt(ingredient_end) ==
    IF ingredient_end = -1 THEN Return(Err("UnexpectedEOF", "Ingredient"))
    ELSE IF ~InBounds(s, 0, ingredient_end) THEN Return(Panic("s[..ingredient_end]"))
    ELSE PushIngredient(ingredient_end, IngredientFromStr(Slice(s, 0, ingredient_end)))

\* recipe_util.rs 281-286: one iteration of the while loop
IngredientsLoop ==
    /\ pc = "ingredients"
    /\ ~StartsWith(s, NL)
    /\ IngredientLineAt(Find(s, NL))

\* the paragraphs of the steps text
StepsOf(t) == LET parts == SplitBlank(t) IN [i \in 1..Len(parts) |-> Step(parts[i])]

\* a faulty last stage that takes a missing steps marker for a recipe without steps
StepsOptional ==
    /\ pc = "ingredients"
    /\ StartsWith(s, NL)
    /\ LET s1 == TrimStart(s)
       IN  IF ~StartsWith(s1, MARK_STEPS)
           THEN Return(Ok(Recipe(rec.title, rec.image, rec.introduction, rec.ingredients, <<>>, "Metric")))
           ELSE IF ~InBounds(s1, 8, Len(s1)) THEN Return(Panic("s[8..]"))
           ELSE Return(Ok(Recipe(rec.title, rec.image, rec.introduction, rec.ingredients,
                                 StepsOf(Trim(SliceFrom(s1, 8))), "Metric")))

\* recipe_util.rs 281, 289-311: the loop ends at a blank line; the steps
Steps ==
    /\ pc = "ingredients"
    /\ StartsWith(s, NL)
    /\ LET s1 == TrimStart(s)
       IN  IF ~StartsWith(s1, MARK_STEPS) THEN Return(Err("ExpectedStepsStart", ""))
           ELSE IF ~InBounds(s1, 8, Len(s1)) THEN Return(Panic("s[8..]"))
           ELSE Return(Ok(Recipe(rec.title, rec.image, rec.introduction, rec.ingredients,
                                 StepsOf(Trim(SliceFrom(s1, 8))), "Metric")))

RecipeFromStr == Title \/ ImageStage \/ Introduction \/ IngredientsStart \/ IngredientsLoop \/ Steps

(***************************************************************************)
(* The calls of the pure operations: each takes its input from inp and     *)
(* leaves its result in out.                                               *)
(***************************************************************************)
CallWeightFromStr ==
    /\ pc = "call"
    /\ pc' = "Weight::from_str"
    /\ out' = WeightFromStr(inp.text)
    /\ UNCHANGED <<inp, s, rec>>

CallVolumeFromStr ==
    /\ pc = "call"
    /\ pc' = "Volume::from_str"
    /\ out' = VolumeFromStr(inp.text)
    /\ UNCHANGED <<inp, s, rec>>

CallIngredientFromStr ==
    /\ pc = "call"
    /\ pc' = "Ingredient::from_str"
    /\ out' = IngredientFromStr(inp.text)
    /\ UNCHANGED <<inp, s, rec>>

FmtWeightMetric ==
    /\ pc = "fmt"
    /\ pc' = "Weight<Metric>::fmt"
    /\ out' = Display(WeightAsMetric(Weight(inp.val, "Metric")))
    /\ UNCHANGED <<inp, s, rec>>

FmtWeightImperial ==
    /\ pc = "fmt"
    /\ pc' = "Weight<Imperial>::fmt"
    /\ out' = Display(WeightAsImperial(Weight(inp.val, "Metric")))
    /\ UNCHANGED <<inp, s, rec>>

FmtVolumeMetric ==
    /\ pc = "fmt"
    /\ pc' = "Volume<Metric>::fmt"
    /\ out' = Display(VolumeAsMetric(Volume(inp.val, "Metric")))
    /\ UNCHANGED <<inp, s, rec>>

FmtVolumeImperial ==
    /\ pc = "fmt"
    /\ pc' = "Volume<Imperial>::fmt"
    /\ out' = Display(VolumeAsImperial(Volume(inp.val, "Metric")))
    /\ UNCHANGED <<inp, s, rec>>

IsRecipe(x) == "title" \in DOMAIN x

IsIngredient(x) == "ingredient" \in DOMAIN x

\* as_imperial of whatever x is
AsImperialOf(x) ==
    IF IsRecipe(x) THEN RecipeAsImperial(x)
    ELSE IF IsIngredient(x) THEN IngredientAsImperial(x)
    ELSE QuantityAsImperial(x)

\* as_metric of whatever x is
AsMetricOf(x) ==
    IF IsRecipe(x) THEN RecipeAsMetric(x)
    ELSE IF IsIngredient(x) THEN IngredientAsMetric(x)
    ELSE QuantityAsMetric(x)

MaxConversions == 3

\* x.as_imperial(); Recipe has it for Recipe<Metric> only.  s is the list of
\* the conversions made so far and rec the value before the last one.
AsImperial ==
    /\ pc = "convert"
    /\ Len(s) < MaxConversions
    /\ IsRecipe(out) => out.tag = "Metric"
    /\ out' = AsImperialOf(out)
    /\ rec' = out
    /\ s' = Append(s, "as_imperial")
    /\ UNCHANGED <<pc, inp>>

\* x.as_metric(); Recipe has it for Recipe<Imperial> only
AsMetric ==
    /\ pc = "convert"
    /\ Len(s) < MaxConversions
    /\ IsRecipe(out) => out.tag = "Imperial"
    /\ out' = AsMetricOf(out)
    /\ rec' = out
    /\ s' = Append(s, "as_metric")
    /\ UNCHANGED <<pc, inp>>

(***************************************************************************)
(* Inputs                                                                  *)
(***************************************************************************)
UpperChar(c) == IF \E i \in 1..26 : LOWER[i] = c THEN UPPER[CHOOSE i \in 1..26 : LOWER[i] = c] ELSE c

ToUppercase(t) == [i \in 1..Len(t) |-> UpperChar(t[i])]

SeqsOf(S, lo, hi) == UNION {[1..n -> S] : n \in lo..hi}

RECURSIVE Join(_, _)
Join(ts, sep) ==
    IF ts = <<>> THEN <<>>
    ELSE IF Len(ts) = 1 THEN ts[1]
    ELSE ts[1] \o sep \o Join(Tail(ts), sep)

\* the largest number of 's' appended to a unit word
MaxPlural == 2

Amounts ==
    { <<"0">>, <<"1">>, <<"1","0">>, <<"1","0","0","0","0">>, <<"1",".","5">>, <<"9","0","0","7","1","9","9","2","5","4","7","4","0","9","9","3">>, <<"1","0","0","0","0","0","0","0","0","0","0","0","0","0","0">>,
      <<>>, <<"x">>, <<"1",".","2",".","3">> }

WeightWords ==
    { <<"m","g">>, <<"m","i","l","l","i","g","r","a","m">>, <<"c","g">>, <<"c","e","n","t","i","g","r","a","m">>, <<"d","g">>, <<"d","e","c","i","g","r","a","m">>, <<"g">>, <<"g","r","a","m">>,
      <<"k","g">>, <<"k","i","l","o","g","r","a","m">>, <<"o","z">>, <<"o","u","n","c","e">>, <<"l","b">>, <<"p","o","u","n","d">> }

VolumeWords ==
    { <<"m","l">>, <<"m","i","l","l","i","l","i","t","e","r">>, <<"m","i","l","l","i","l","i","t","r","e">>, <<"c","l">>, <<"c","e","n","t","i","l","i","t","e","r">>, <<"c","e","n","t","i","l","i","t","r","e">>,
      <<"d","l">>, <<"d","e","c","i","l","i","t","e","r">>, <<"d","e","c","i","l","i","t","r","e">>, <<"l">>, <<"l","i","t","e","r">>, <<"l","i","t","r","e">>,
      <<"t","s","p">>, <<"t","b","s","p">>, <<"f","l","o","z">>, <<"r","i","c","e">>, <<"c","u","p">>, <<"q","u","a","r","t">> }

OtherWords == { <<>>, <<"e","g","g">>, <<"c","u">> }

Tails == { <<>>, <<" ","o","f"," ","e","g","g","s">>, <<" ","c","u","p","s"," ","o","f"," ","r","i","c","e">> }

Plural(w, k) == w \o [i \in 1..k |-> "s"]

\* an amount, a unit word with k 's' appended, in lower or upper case, a tail
QuantityText(a, w, k, up, t) ==
    a \o <<" ">> \o (IF up THEN ToUppercase(Plural(w, k)) ELSE Plural(w, k)) \o t

QuantityInputs ==
    { [fn |-> "parse", form |-> "quantity", amount |-> a, word |-> w, plural |-> k,
       text |-> QuantityText(a, w, k, up, t)] :
        a \in Amounts, w \in WeightWords \cup VolumeWords \cup OtherWords,
        k \in 0..MaxPlural, up \in BOOLEAN, t \in Tails }

LineTexts ==
    { <<>>, <<"s","a","l","t">>, <<" ","s","a","l","t">>, <<"s","a","l","t"," ">>, <<"p","l","a","i","n"," ","d","e","s","c","r","i","p","t","i","o","n">>, <<"1","0","g">>, <<"1"," ","c","u","p"," ","w","a","t","e","r">>,
      <<"8"," ","e","g","g","s">>, <<"1"," "," ","c","u","p">>, <<"1"," ","g","\t">>, <<"\t","1"," ","g"," ","x">>, <<"1"," ","\t">>, <<" ">>, <<" "," ">>, <<"2"," ","r","i","c","e"," ","c","u","p","s"," ","o","f"," ","r","i","c","e">>,
      <<"1"," ","g"," "," ","f","l","o","u","r">>, <<"a"," ","p","i","n","c","h"," ","o","f"," ","s","a","l","t">>, <<"1"," ","g","r","a","m","\t","o","f"," ","s","a","l","t">>, <<"1"," ","g","\t"," ","f","l","o","u","r">> }

LineInputs ==
    { [fn |-> "parse", form |-> "line", amount |-> <<>>, word |-> <<>>, plural |-> 0, text |-> t] :
        t \in LineTexts }

InitParse ==
    /\ inp \in QuantityInputs \cup LineInputs
    /\ pc = "call"
    /\ s = inp.text
    /\ rec = NoFields
    /\ out = Pending

NextParse == CallWeightFromStr \/ CallVolumeFromStr \/ CallIngredientFromStr

SpecParse == InitParse /\ [][NextParse]_vars

\* the largest number of ingredient lines of a generated document
MaxLines == 2

\* the largest number of step paragraphs of a generated document
MaxParagraphs == 2

\* the largest number of pieces of a free-form text
MaxPieces == 4

Titles == { <<"T","e","a">> }

IngredientLines == { <<"1"," ","c","u","p"," ","w","a","t","e","r">>, <<"s","a","l","t">>, <<" ","s","a","l","t">>, <<"1","0"," ","G","s"," ","o","f"," ","t","e","a">>, <<" ">> }

Paragraphs == { <<"B","o","i","l"," ","i","t",".">>, <<"M","i","x",".","\n","S","e","r","v","e",".">> }

Variants ==
    { "plain", "no_final_newline", "image", "introduction", "image_introduction",
      "image_unterminated", "title_unterminated", "no_marker", "no_lines",
      "no_steps_eof", "no_steps_blank", "no_steps_text", "introduction_no_steps" }

\* the document of a variant: title T, ingredient lines Ls, step paragraphs Ps
Document(variant, T, Ls, Ps) ==
    LET head == T \o BLANK
        image == <<"i","m","a","g","e",":"," ","t","e","a",".","p","n","g">> \o BLANK
        intro == <<"A"," ","h","o","t"," ","d","r","i","n","k",".">> \o BLANK
        lines == Concat([i \in 1..Len(Ls) |-> Ls[i] \o NL])
        ingredients == MARK_INGREDIENTS \o NL \o lines
        paragraphs == Join(Ps, BLANK)
        steps == NL \o MARK_STEPS \o NL \o paragraphs \o NL
    IN  CASE variant = "plain" -> head \o ingredients \o steps
          [] variant = "no_final_newline" -> head \o ingredients \o NL \o MARK_STEPS \o NL \o paragraphs
          [] variant = "image" -> head \o image \o ingredients \o steps
          [] variant = "introduction" -> head \o intro \o ingredients \o steps
          [] variant = "image_introduction" -> head \o image \o intro \o ingredients \o steps
          [] variant = "image_unterminated" -> head \o <<"i","m","a","g","e",":"," ","t","e","a",".","p","n","g">> \o NL \o ingredients
          [] variant = "title_unterminated" -> T \o NL \o ingredients \o steps
          [] variant = "no_marker" -> head \o lines \o steps
          [] variant = "no_lines" -> head \o MARK_INGREDIENTS \o NL \o steps
          [] variant = "no_steps_eof" -> head \o ingredients
          [] variant = "no_steps_blank" -> head \o ingredients \o NL
          [] variant = "no_steps_text" -> head \o ingredients \o NL \o paragraphs \o NL
          [] variant = "introduction_no_steps" -> head \o intro \o ingredients \o NL \o paragraphs

Documents ==
    { [fn |-> "Recipe::from_str", variant |-> v, T |-> T, Ls |-> Ls, Ps |-> Ps,
       text |-> Document(v, T, Ls, Ps)] :
        v \in Variants, T \in Titles, Ls \in SeqsOf(IngredientLines, 1, MaxLines),
        Ps \in SeqsOf(Paragraphs, 1, MaxParagraphs) }

Pieces == { NL, <<" ">>, <<"T">>, MARK_IMAGE, MARK_INGREDIENTS, MARK_STEPS \o NL, <<"1"," ","g"," ","x">> \o NL }

Prefixes == { <<>>, <<"T">> \o BLANK \o MARK_INGREDIENTS \o NL }

\* free-form texts: a prefix and up to MaxPieces pieces
FreeTexts ==
    { [fn |-> "Recipe::from_str", variant |-> "free", T |-> <<>>, Ls |-> <<>>, Ps |-> <<>>,
       text |-> p \o Concat(ps)] :
        p \in Prefixes, ps \in SeqsOf(Pieces, 0, MaxPieces) }

InitRecipe ==
    /\ inp \in Documents \cup FreeTexts
    /\ pc = "title"
    /\ s = inp.text
    /\ rec = NoFields
    /\ out = Pending

NextRecipe == RecipeFromStr

SpecRecipe == InitRecipe /\ [][NextRecipe]_vars

\* how far around each breakpoint the rendered values are taken
Spread == 2

Breakpoints ==
    UNION { {t[i].lo : i \in 1..Len(t)} : t \in {WEIGHT_METRIC, WEIGHT_IMPERIAL, VOLUME_METRIC, VOLUME_IMPERIAL} }

\* b + d
Near(b, d) == IF b + d < 0 THEN N(0) ELSE N(b + d)

DisplayValues ==
    { Near(b, d) : b \in Breakpoints, d \in (0 - Spread)..Spread }
        \cup { N(1050000), N(1150000), N(1250000), N(9949999), N(9950000), N(9999999),
               N(14175), N(113396), N(1020582), BOfDigits(<<"4","2","9","4","9","6","7","2","9","6">>), BOfDigits(<<"9","0","0","7","1","9","9","2","5","4","7","4","0","9","9","3">>),
               BDiv(U64_MAX, 2).q, BDiv(U64_MAX, 1).q, U64_MAX }

InitDisplay ==
    /\ inp \in {[fn |-> "fmt", val |-> v] : v \in DisplayValues}
    /\ pc = "fmt"
    /\ s = <<>>
    /\ rec = NoFields
    /\ out = Pending

NextDisplay == FmtWeightMetric \/ FmtWeightImperial \/ FmtVolumeMetric \/ FmtVolumeImperial

SpecDisplay == InitDisplay /\ [][NextDisplay]_vars

ConvertValues == { N(0), N(10000), N(236588), U64_MAX }

ConvertQuantities ==
    { Weight(v, t) : v \in ConvertValues, t \in {"Metric", "Imperial"} }
        \cup { Volume(v, t) : v \in ConvertValues, t \in {"Metric", "Imperial"} }

ConvertIngredients ==
    { Ingredient(n, q, "Metric") : n \in {<<"w","a","t","e","r">>, <<" ","s","a","l","t">>},
        q \in {None} \cup {Some(x) : x \in {Weight(N(10000), "Metric"), Volume(N(236588), "Metric"), Weight(U64_MAX, "Metric")}} }

ConvertRecipes ==
    { Recipe(<<"T","e","a">>, im, intro, is, <<Step(<<"B","o","i","l"," ","i","t",".">>), Step(<<"S","e","r","v","e",".">>)>>, "Metric") :
        im \in {None, Some(Image(<<"t","e","a",".","p","n","g">>))}, intro \in {None, Some(<<"A"," ","h","o","t"," ","d","r","i","n","k",".">>)},
        is \in SeqsOf(ConvertIngredients, 0, MaxLines) }

InitConvert ==
    /\ inp \in {[fn |-> "convert", val |-> x] : x \in ConvertQuantities \cup ConvertIngredients \cup ConvertRecipes}
    /\ pc = "convert"
    /\ s = <<>>
    /\ rec = inp.val
    /\ out = inp.val

NextConvert == AsImperial \/ AsMetric

SpecConvert == InitConvert /\ [][NextConvert]_vars

Init == InitParse \/ InitRecipe \/ InitDisplay \/ InitConvert

Next == NextParse \/ NextRecipe \/ NextDisplay \/ NextConvert

Spec == Init /\ [][Next]_vars

(***************************************************************************)
(* Claims                                                                  *)
(***************************************************************************)
Done == pc = "done"

\* the ingredients the Ingredient Line Parser gives for the lines Ls
IngredientsOfLines(Ls) == [i \in 1..Len(Ls) |-> IngredientFromStr(Ls[i]).ok]

\* C1: a well-formed document without image or introduction (title T, blank
\* line, '---ingredients', the lines Ls each ended by a newline, blank line,
\* '---steps', the paragraphs Ps separated by blank lines) parses to the Recipe
\* with title T, no image, no introduction, the ingredients of the lines Ls in
\* order and the steps Ps in order.
C1_WellFormedDocumentParses ==
    (Done /\ inp.variant \in {"plain", "no_final_newline"}) =>
        out = Ok(Recipe(inp.T, None, None, IngredientsOfLines(inp.Ls),
                        [i \in 1..Len(inp.Ps) |-> Step(inp.Ps[i])], "Metric"))

\* C1, the case of the example: the document of the specification parses as stated
C1_TeaExample ==
    (Done /\ inp.variant = "plain" /\ inp.Ls = <<<<"1"," ","c","u","p"," ","w","a","t","e","r">>>> /\ inp.Ps = <<<<"B","o","i","l"," ","i","t",".">>>>) =>
        out = Ok(Recipe(<<"T","e","a">>, None, None,
                        <<Ingredient(<<"w","a","t","e","r">>, Some(Volume(N(236588), "Metric")), "Metric")>>,
                        <<Step(<<"B","o","i","l"," ","i","t",".">>)>>, "Metric"))

AllDigits(t) == t # <<>> /\ \A i \in 1..Len(t) : IsDigit(t[i])

\* the factor of a weight alias, in milligrams
FactorOf(word) ==
    CASE word \in {<<"m","g">>, <<"m","i","l","l","i","g","r","a","m">>} -> 1
      [] word \in {<<"c","g">>, <<"c","e","n","t","i","g","r","a","m">>} -> 10
      [] word \in {<<"d","g">>, <<"d","e","c","i","g","r","a","m">>} -> 100
      [] word \in {<<"g">>, <<"g","r","a","m">>} -> 1000
      [] word \in {<<"k","g">>, <<"k","i","l","o","g","r","a","m">>} -> 1000000
      [] word \in {<<"o","z">>, <<"o","u","n","c","e">>} -> 28349
      [] word \in {<<"l","b">>, <<"p","o","u","n","d">>} -> 453592

\* the text '<n> <u>[s][ <text>]' of a weight: an integer amount, a weight alias
\* in either case, at most one plural 's'
IsWeightText ==
    /\ inp.form = "quantity"
    /\ AllDigits(inp.amount)
    /\ inp.word \in WeightWords
    /\ inp.plural <= 1

\* n * factor(u)
ExactWeight == BMul(BOfDigits(inp.amount), FactorOf(inp.word))

\* C2 as stated: parsing '<n> <u>[s][ <text>]' as Weight gives n * factor(u)
\* for every non-negative integer n.
C2_AmountTimesFactor ==
    (pc = "Weight::from_str" /\ IsWeightText) => out = Ok(Weight(ExactWeight, "Metric"))

\* C2, amended: parsing '<n> <u>[s][ <text>]' as Weight gives n * factor(u)
\* whenever n * factor(u) is below 2^53.
C2_AmountTimesFactorBelow2To53 ==
    (pc = "Weight::from_str" /\ IsWeightText /\ BLess(ExactWeight, TWO53)) =>
        out = Ok(Weight(ExactWeight, "Metric"))

C2_Witness ==
    /\ pc = "Weight::from_str"
    /\ IsWeightText
    /\ inp.text = <<"1","0","0","0","0"," ","K","G","S"," ","o","f"," ","e","g","g","s">>
    /\ out = Ok(Weight(BOfDigits(<<"1","0","0","0","0","0","0","0","0","0","0">>), "Metric"))

\* the unit token as the quantity parsers see it, lowercased
UnitTokenOf(t) == UnitToken(SplitOnce(t).some[2])

\* C3: after any sequence of as_metric / as_imperial conversions the value,
\* with its unit-system tags left out, is the original one: every canonical
\* integer, the Weight/Volume variant, every text field and the order of the
\* ingredients; the tag is the one of the last conversion; and a conversion
\* repeated changes nothing more.
Untagged(x) ==
    IF IsRecipe(x)
    THEN [x EXCEPT !.tag = "", !.ingredients =
            [i \in 1..Len(x.ingredients) |->
                [x.ingredients[i] EXCEPT !.tag = "", !.quantity =
                    IF IsNone(@) THEN None ELSE Some([@.some EXCEPT !.tag = ""])]]]
    ELSE IF IsIngredient(x)
    THEN [x EXCEPT !.tag = "", !.quantity = IF IsNone(@) THEN None ELSE Some([@.some EXCEPT !.tag = ""])]
    ELSE [x EXCEPT !.tag = ""]

\* every unit-system tag inside x
TagsOf(x) ==
    IF IsRecipe(x)
    THEN {x.tag} \cup UNION { {x.ingredients[i].tag} \cup
                              (IF IsNone(x.ingredients[i].quantity) THEN {} ELSE {x.ingredients[i].quantity.some.tag}) :
                              i \in 1..Len(x.ingredients) }
    ELSE IF IsIngredient(x)
    THEN {x.tag} \cup (IF IsNone(x.quantity) THEN {} ELSE {x.quantity.some.tag})
    ELSE {x.tag}

C3_ConversionKeepsData ==
    pc = "convert" =>
        /\ Untagged(out) = Untagged(inp.val)
        /\ Len(s) >= 1 => TagsOf(out) = {IF s[Len(s)] = "as_imperial" THEN "Imperial" ELSE "Metric"}
        /\ (Len(s) >= 2 /\ s[Len(s)] = s[Len(s) - 1]) => out = rec

C3_Witness ==
    /\ pc = "convert"
    /\ s = <<"as_imperial", "as_metric", "as_imperial">>
    /\ IsRecipe(out)
    /\ Len(out.ingredients) = 2
    /\ out.ingredients[1].quantity = Some(Weight(U64_MAX, "Imperial"))
    /\ out.ingredients[2].quantity = Some(Volume(N(236588), "Imperial"))

\* the table a rendering was made with
TableAt ==
    CASE pc = "Weight<Metric>::fmt" -> WEIGHT_METRIC
      [] pc = "Weight<Imperial>::fmt" -> WEIGHT_IMPERIAL
      [] pc = "Volume<Metric>::fmt" -> VOLUME_METRIC
      [] pc = "Volume<Imperial>::fmt" -> VOLUME_IMPERIAL

Tables == {WEIGHT_METRIC, WEIGHT_IMPERIAL, VOLUME_METRIC, VOLUME_IMPERIAL}

MatchCount(t, v) == Cardinality({i \in 1..Len(t) : ArmMatches(t[i], v)})

\* the ranges of t from arm `from` on: ascending, each not empty, each starting
\* where the one before ends, the first at 0 and the last open
Partitions(t, from) ==
    /\ t[from].lo = 0
    /\ t[Len(t)].hi = OPEN
    /\ \A i \in from..(Len(t) - 1) : t[i].lo < t[i].hi /\ t[i].hi = t[i + 1].lo

NoStepsVariants == {"no_steps_eof", "no_steps_blank", "no_steps_text", "introduction_no_steps"}

\* a document with a title, the ingredients marker and at least one ingredient
\* line that nowhere contains '---steps'
LacksSteps == inp.variant \in NoStepsVariants /\ Len(inp.Ls) >= 1 /\ ~Contains(inp.text, MARK_STEPS)

\* the text after the ingredients marker, its leading whitespace skipped
RestAfterMarker(t) == TrimStart(SliceFrom(t, Find(t, MARK_INGREDIENTS) + Len(MARK_INGREDIENTS)))

\* C5 as stated: a document with title, marker and ingredient lines but
\* without '---steps' fails with ExpectedStepsStart.
C5_MissingStepsIsExpectedStepsStart ==
    (Done /\ LacksSteps) => out = Err("ExpectedStepsStart", "")

\* C5, amended: no text without '---steps' parses to a Recipe; a document with
\* title, marker and ingredient lines but without '---steps' fails with
\* ExpectedStepsStart when the text after the marker holds a blank line, and
\* with UnexpectedEOF("Ingredient") when it holds none.
C5_MissingStepsFails ==
    (Done /\ ~Contains(inp.text, MARK_STEPS)) =>
        /\ IsErr(out)
        /\ LacksSteps =>
            out = IF Contains(RestAfterMarker(inp.text), BLANK)
                  THEN Err("ExpectedStepsStart", "")
                  ELSE Err("UnexpectedEOF", "Ingredient")

C5_Witness ==
    /\ Done
    /\ LacksSteps
    /\ inp.variant = "no_steps_text"
    /\ Len(rec.ingredients) = 2
    /\ out = Err("ExpectedStepsStart", "")

\* the quantity candidate of a line: the text before the second space, or the line
Candidate(t) ==
    IF Cardinality({i \in 1..Len(t) : t[i] = " "}) >= 2
    THEN SubSeq(t, 1, (CHOOSE i \in 1..Len(t) :
                          t[i] = " " /\ Cardinality({j \in 1..(i - 1) : t[j] = " "}) = 1) - 1)
    ELSE t

\* C6: the Ingredient Line Parser fails exactly when the line is empty, and then
\* with ExpectedIngredient; when the candidate parses neither as Weight nor as
\* Volume, the result is the whole line, unchanged, as the name and no quantity.
C6_IngredientLine ==
    pc = "Ingredient::from_str" =>
        /\ IsOk(out) <=> inp.text # <<>>
        /\ inp.text = <<>> => out = Err("ExpectedIngredient", "")
        /\ (inp.text # <<>> /\ IsErr(WeightFromStr(Candidate(inp.text)))
                /\ IsErr(VolumeFromStr(Candidate(inp.text)))) =>
              out = Ok(Ingredient(inp.text, None, "Metric"))

C6_Witness ==
    /\ pc = "Ingredient::from_str"
    /\ inp.text = <<" ","s","a","l","t">>
    /\ out = Ok(Ingredient(<<" ","s","a","l","t">>, None, "Metric"))

\* whether the normalised unit token is an alias of the parser's table
KnownUnit(parser, t) ==
    LET unit == StripPlural(UnitTokenOf(t))
    IN  IF parser = "Weight::from_str" THEN unit \in WeightWords
        ELSE unit \in VolumeWords \ {<<"r","i","c","e">>} \/ (unit = <<"r","i","c","e">> /\ Contains(t, <<"c","u","p">>))

\* the failure the stated order gives for text t, "" when none applies
FirstFailure(parser, t) ==
    IF t = <<>> THEN "EmptyString"
    ELSE IF IsNone(SplitOnce(t)) THEN "InvalidFormat"
    ELSE IF IsErr(ParseF64(Trim(SplitOnce(t).some[1]))) THEN "CustomString"
    ELSE IF ~KnownUnit(parser, t) THEN "UnknownUnit"
    ELSE ""

\* C7: Weight and Volume parsing report the first failure of the order
\* EmptyString, InvalidFormat, numeric-parse error, UnknownUnit, and fail on
\* no other input.
C7_FailureOrder ==
    pc \in {"Weight::from_str", "Volume::from_str"} =>
        IF FirstFailure(pc, inp.text) = "" THEN IsOk(out)
        ELSE IsErr(out) /\ out.err = FirstFailure(pc, inp.text)

C7_Witness ==
    /\ pc = "Volume::from_str"
    /\ inp.text = <<"1",".","2",".","3"," ","e","g","g","s"," ","o","f"," ","e","g","g","s">>
    /\ ~KnownUnit(pc, inp.text)
    /\ out = Err("CustomString", "invalid float literal")

\* C9 as stated: a unit token with two or more 's' after an alias is no alias,
\* and the parse fails with UnknownUnit.
C9_OnePluralOnly ==
    (/\ pc \in {"Weight::from_str", "Volume::from_str"}
     /\ inp.form = "quantity"
     /\ IsOk(ParseF64(inp.amount))
     /\ inp.word \in (IF pc = "Weight::from_str" THEN WeightWords ELSE VolumeWords)
     /\ inp.plural >= 2) => out = Err("UnknownUnit", "")

\* the call has returned
Returned == pc \in {"done", "Weight::from_str", "Volume::from_str", "Ingredient::from_str"}

ErrorKinds ==
    { "EmptyString", "InvalidFormat", "CustomString", "UnknownUnit", "ExpectedTitle",
      "ExpectedImageHref", "ExpectedIngredientsStart", "ExpectedIngredient",
      "ExpectedStepsStart", "UnexpectedEOF" }

NextText == NextParse \/ NextRecipe

\* every call of a parser on a text
SpecText == (InitParse \/ InitRecipe) /\ [][NextText]_vars

\* the position of a stage in the order the parser goes through them
StageOf(p) ==
    CASE p \in {"call", "title"} -> 0
      [] p = "image" -> 1
      [] p = "introduction" -> 2
      [] p = "ingredients_start" -> 3
      [] p = "ingredients" -> 4
      [] OTHER -> 5

\* C8: on every text each parser returns, with a value or one typed error: no
\* stage slices the remaining text outside its bounds or aborts, every step
\* moves to a later stage or shortens the remaining text (so no call runs
\* forever), and every iteration of the ingredients loop strictly shortens
\* the remaining text.
C8_TotalOnText ==
    /\ [](~IsPanic(out))
    /\ [](Returned => (IsOk(out) \/ (IsErr(out) /\ out.err \in ErrorKinds)))
    /\ [][StageOf(pc') > StageOf(pc) \/ (StageOf(pc') = StageOf(pc) /\ Len(s') < Len(s))]_vars
    /\ [][(pc = "ingredients" /\ pc' = "ingredients") => Len(s') < Len(s)]_vars

C8_Witness ==
    /\ pc = "done"
    /\ inp.variant = "free"
    /\ Len(rec.ingredients) = 2
    /\ out = Err("UnexpectedEOF", "Ingredient")

\* the number a short limb sequence stands for
RECURSIVE Value(_)
Value(x) == IF x = <<>> THEN 0 ELSE x[1] + 1000 * Value(Tail(x))

\* t is v milligrams in kilograms to one decimal: the nearest tenth of a kilogram
KgOneDecimal(t, v) ==
    \E tenths \in 0..100 :
        /\ t = SmallText(tenths \div 10) \o <<".", DIGITS[(tenths % 10) + 1]>> \o <<" ","k","g">>
        /\ tenths * 100000 - v <= 50000
        /\ v - tenths * 100000 <= 50000

\* the rendering the tiers give to v >= 1
Tiers(t, v) ==
    IF BLess(v, N(1000)) THEN t = SmallText(Value(v)) \o <<" ","m","g">>
    ELSE IF BLess(v, N(1000000)) THEN t = SmallText(Value(v) \div 1000) \o <<" ","g">>
    ELSE IF BLess(v, N(10000000)) THEN KgOneDecimal(t, Value(v))
    ELSE t = BToText(BDiv(v, 1000000).q) \o <<" ","k","g">>

OunceOneDecimal(t, v) ==
    \E tenths \in 0..80 :
        /\ t = SmallText(tenths \div 10) \o <<".", DIGITS[(tenths % 10) + 1]>>
        /\ 2 * (tenths * OUNCE - 10 * v) <= OUNCE
        /\ 2 * (10 * v - tenths * OUNCE) <= OUNCE

\* the number before the unit label of a rendering
NumberOf(t) == SubSeq(t, 1, Find(t, <<" ">>))

\* the unit label of a rendering
LabelOf(t) == SliceFrom(t, Find(t, <<" ">>) + 1)

\* C11 as stated: every v in [12000, 8*28349) is rendered by Weight<Imperial> as
\* v/28349 to one decimal followed by the label 'oz'.
C11_OuncesUpToEightOunces ==
    (/\ pc = "Weight<Imperial>::fmt"
     /\ BLeq(N(12000), inp.val)
     /\ BLess(inp.val, N(8 * 28349))) =>
        /\ OunceOneDecimal(NumberOf(out), Value(inp.val))
        /\ LabelOf(out) = <<"o","z">>

\* the line '---ingredients' with the newlines around it
MarkerLine == NL \o MARK_INGREDIENTS \o NL

\* the text has one occurrence of '---ingredients', and it is a line of its own
OneMarkerLine(t) ==
    /\ Find(t, MarkerLine) # -1
    /\ Find(t, MARK_INGREDIENTS) = Find(t, MarkerLine) + 1
    /\ ~Contains(SliceFrom(t, Find(t, MarkerLine) + Len(MarkerLine)), MARK_INGREDIENTS)

\* the text after the marker line
AfterMarkerLine(t) == SliceFrom(t, Find(t, MarkerLine) + Len(MarkerLine))

\* the lines of r up to its first blank (empty) line or its end
RECURSIVE LinesUntilBlank(_)
LinesUntilBlank(r) ==
    IF r = <<>> \/ StartsWith(r, NL) THEN <<>>
    ELSE IF Find(r, NL) = -1 THEN <<r>>
    ELSE <<Slice(r, 0, Find(r, NL))>> \o LinesUntilBlank(SliceFrom(r, Find(r, NL) + 1))

\* C12 as stated: in every successfully parsed Recipe the ingredients are
\* exactly the lines between the '---ingredients' marker line and the first
\* blank line after it, in order; a marker line directly followed by a blank
\* line and then '---steps' gives a Recipe with an empty ingredient list.
C12_LinesUntilBlankLine ==
    /\ (Done /\ IsOk(out) /\ OneMarkerLine(inp.text)) =>
          out.ok.ingredients = IngredientsOfLines(LinesUntilBlank(AfterMarkerLine(inp.text)))
    /\ (Done /\ inp.variant = "no_lines") =>
          (IsOk(out) /\ out.ok.ingredients = <<>>)

\* the quantity of a parsed ingredient line
QuantityOf(r) == r.ok.quantity

\* C13 as stated: when the whole line parses as Weight (as Volume) with value
\* q, the Ingredient Line Parser returns the quantity Weight(q) (Volume(q)).
C13_LineAgreesWithQuantityParser ==
    pc = "Ingredient::from_str" =>
        /\ IsOk(WeightFromStr(inp.text)) =>
              (IsOk(out) /\ QuantityOf(out) = Some(WeightFromStr(inp.text).ok))
        /\ IsOk(VolumeFromStr(inp.text)) =>
              (IsOk(out) /\ QuantityOf(out) = Some(VolumeFromStr(inp.text).ok))

====
